---- MODULE Spec2Model ----
(***************************************************************************)
(* Model of the BS440 scale bridge: the scan / connect / collect loop of   *)
(* ble_scanner.py (BLEScanner and main), the frame decoder of medisana.py  *)
(* and the sink interface of the plugins.                                  *)
(*                                                                         *)
(* The single thread of the program is modelled by pc, one value per       *)
(* blocking call of the code (scan, Peripheral(), the acknowledged writes, *)
(* waitForNotifications, a plugin call, disconnect); the transport and the *)
(* operator are the environment and choose the outcome of each call.       *)
(***************************************************************************)
EXTENDS Integers, Sequences, FiniteSets, TLC

\* ---------------------------------------------------------------- bounds
MaxCycles == 2      \* scan cycles explored
MaxDevs == 2        \* devices one scan reports
MaxNotifs == 2      \* notifications the scale sends over the whole run
MaxPlugins == 2     \* sinks registered by load_plugins
MaxInd == 1         \* INDICATE characteristics of the weight service
MaxPersons == 2     \* user slots of the scale seen by the MQTT sink
MaxStamps == 2      \* embedded timestamps of the weight readings of a batch
MaxBatchLen == 3    \* measurements in one batch handed to the MQTT sink
MaxBatches == 2     \* batches the MQTT sink processes in a run
MaxFrameLen == 17   \* bytes of the longest payload handed to the decoder

\* ------------------------------------------------------ program constants
max_retries_mut == 3 + 1

max_retries == 3    \* connect_to_device: max_retries = 3
timeout == 30       \* connect_to_device: timeout = 30 (seconds)
ScanPauseSecs == 1  \* scan_devices: time.sleep(1)
MainPauseSecs == 5  \* main: time.sleep(5)

\* -------------------------------------------------------------- addresses
\* An address is a sequence of characters; str.lower() maps each character.
LowerChar(c) == CASE c = "A" -> "a" [] c = "B" -> "b" [] OTHER -> c

Lower(s) == [i \in DOMAIN s |-> LowerChar(s[i])]

\* Addresses a scan may report and lists BS440.ini may configure.
Addrs == { <<"A", "1">>, <<"b", "2">> }

ConfigLists == { << <<"A", "1">> >>, << <<"a", "1">>, <<"B", "2">> >> }

\* BLEScanner.__init__: self.target_macs = [mac.lower() for mac in target_macs]
LowerAll(macs) == [i \in DOMAIN macs |-> Lower(macs[i])]

InList(x, list) == \E i \in DOMAIN list : list[i] = x

IsTarget_mut(addr, macs) == ~InList(Lower(addr), macs)

\* scan_devices: device_mac = dev.addr.lower(); device_mac in self.target_macs
IsTarget(addr, macs) == InList(Lower(addr), macs)

\* Scan results: lists of distinct addresses, at most MaxDevs long.
ScanLists ==
  { ds \in UNION { [1..n -> Addrs] : n \in 0..MaxDevs } :
      \A i, j \in DOMAIN ds : i # j => ds[i] # ds[j] }

\* ----------------------------------------------------------------- frames
None == [type |-> "none"]

Byte(data, off) == data[off + 1]      \* data[off], Python's 0-based index

U16(data, off) == Byte(data, off) + 256 * Byte(data, off + 1)

\* The decoder's inputs: the notification payload in hand, what
\* parse_measurement returned for it, and sys.maxsize of the Python build.
VARIABLES
  payload,        \* parse_measurement: data
  parsed,         \* the value parse_measurement returned for payload
  sys_maxsize     \* sys.maxsize, as limbs

dec_vars == <<payload, parsed, sys_maxsize>>

\* Python integers beyond 31 bits are kept as four 16-bit limbs, least
\* significant first.
Base == 65536

Zero == <<0, 0, 0, 0>>

\* sys.maxsize: 2^31 - 1 on a 32-bit build, 2^63 - 1 on a 64-bit build.
MaxSize32 == <<65535, 32767, 0, 0>>

MaxSize64 == <<65535, 65535, 65535, 32767>>

\* time_offset = 1262304000 = 19261 * 65536 + 15104 (lines 60 and 103).
time_offset == <<15104, 19261, 0, 0>>

\* a + b on limbs (the sums of this model stay below 2^64).
AddL(a, b) ==
  LET s1 == a[1] + b[1]
      s2 == a[2] + b[2] + s1 \div Base
      s3 == a[3] + b[3] + s2 \div Base
      s4 == a[4] + b[4] + s3 \div Base
  IN <<s1 % Base, s2 % Base, s3 % Base, s4 % Base>>

\* a < b on limbs.
LessL(a, b) ==
  \E i \in 1..4 : a[i] < b[i] /\ \A j \in (i + 1)..4 : a[j] = b[j]

\* struct.unpack('<I', data[off:off + 4])[0]
U32(data, off) == <<U16(data, off), U16(data, off + 2), 0, 0>>

\* Lines 63-72 with the fallback to 0, instead of the raw value, when the
\* offset value does not fit.
unix_timestamp_mut(raw_timestamp, maxsize) ==
  IF LessL(AddL(raw_timestamp, time_offset), maxsize)
    THEN AddL(raw_timestamp, time_offset)
    ELSE Zero

\* Lines 63-72 and 112-122: the value handed to datetime.fromtimestamp.
unix_timestamp(raw_timestamp, maxsize) ==
  LET with_offset ==
        IF LessL(AddL(raw_timestamp, time_offset), maxsize)
          THEN AddL(raw_timestamp, time_offset)
          ELSE raw_timestamp
  IN IF ~LessL(raw_timestamp, maxsize) THEN Zero ELSE with_offset

\* x / 100.0 and x / 10.0 as decimal fractions: whole part and digits.
Div100(x) == [whole |-> x \div 100, hundredths |-> x % 100]

Div10(x) == [whole |-> x \div 10, tenths |-> x % 10]

\* Lines 141-144 without the mask.
Masked_mut(x) == x

\* 0x0FFF & x
Masked(x) == x % 4096

\* bool(b & mask) testing the whole byte against the mask instead.
BitSet_mut(b, mask) == b = mask

\* bool(b & mask) for a mask of one bit.
BitSet(b, mask) == (b \div mask) % 2 = 1

\* The first length at which no index or slice of the branch fails, with
\* the weight branch asking for a byte more.
RequiredLen_mut(message_type) ==
  CASE message_type = 132 -> 9
    [] message_type = 29 -> 15
    [] message_type = 111 -> 16
    [] OTHER -> 0

\* The first length at which no index or slice of the branch fails: the
\* last reads are data[8] (0x84), data[13] (0x1D) and data[6:16] (0x6F).
RequiredLen(message_type) ==
  CASE message_type = 132 -> 9
    [] message_type = 29 -> 14
    [] message_type = 111 -> 16
    [] OTHER -> 0

\* medisana.py parse_measurement.  An index or a slice past the end of data
\* raises inside the try and the handler of line 152 returns None; so does
\* data[0] of an empty payload.  raw_timestamp keeps the two low limbs of
\* the raw value; timestamp is the Unix time handed to
\* datetime.fromtimestamp.
parse_measurement(data) ==
  IF Len(data) = 0 THEN None
  ELSE LET message_type == Byte(data, 0) IN
    IF Len(data) < RequiredLen(message_type) THEN None
    ELSE
    CASE message_type = 132 ->
                [type |-> "person",
                 person |-> Byte(data, 2),
                 gender |-> IF Byte(data, 4) = 1 THEN "male" ELSE "female",
                 age |-> Byte(data, 5),
                 size |-> Byte(data, 6),
                 activity |-> IF Byte(data, 8) = 3 THEN "high" ELSE "normal"]
      [] message_type = 29 ->
                [type |-> "weight",
                 weight |-> Div100(U16(data, 1)),
                 stabilized |-> BitSet(Byte(data, 3), 1),
                 impedance_measured |-> BitSet(Byte(data, 3), 2),
                 raw_timestamp |-> <<U16(data, 5), U16(data, 7)>>,
                 timestamp |-> unix_timestamp(U32(data, 5), sys_maxsize),
                 person |-> Byte(data, 13)]
      [] message_type = 111 ->
                [type |-> "body",
                 raw_timestamp |-> <<U16(data, 1), U16(data, 3)>>,
                 timestamp |-> unix_timestamp(U32(data, 1), sys_maxsize),
                 person |-> Byte(data, 5),
                 kcal |-> U16(data, 6),
                 fat |-> Div10(Masked(U16(data, 8))),
                 tbw |-> Div10(Masked(U16(data, 10))),
                 muscle |-> Div10(Masked(U16(data, 12))),
                 bone |-> Div10(Masked(U16(data, 14)))]
      [] OTHER -> None

\* Payloads the scale sends in the session model: a weight reading of
\* person 1 (7500 = 75.00 kg, status 0x03), a frame cut to 3 bytes and a
\* frame of an opcode the decoder does not know.
WeightFrame == <<29, 76, 29, 3, 0, 0, 0, 0, 0, 0, 0, 0, 0, 1>>

ShortFrame == <<29, 76, 29>>

UnknownFrame == <<1, 0>>

Frames == { WeightFrame, ShortFrame, UnknownFrame }

\* ------------------------------------------------------------------ state
VARIABLES
  pc,             \* the call the thread is in (see the actions)
  mac_addresses,  \* read_config: the configured addresses, as written
  target_macs,    \* self.target_macs
  plugins,        \* len(self.plugins)
  measurements,   \* self.measurements: records [rx, m], arrival order
  seq,            \* notifications delivered so far; rx numbers them
  cycle,          \* scan cycles started
  devices,        \* scan_devices: devices
  dev_i,          \* scan_devices: position of the for loop in devices
  cycle_results,  \* history: connect_to_device results of the running cycle
  scan_result,    \* value scan_devices returned to main
  last_pause,     \* seconds slept since the last scan ended
  device_addr,    \* connect_to_device: device_addr
  attempt,        \* connect_to_device: attempt
  n_attempts,     \* history: attempts started in this call
  n_generic,      \* history: attempts of this call ended by a BTLEException
  links,          \* Peripherals connected and not yet disconnect()ed
  ind_left,       \* INDICATE characteristics still to enable
  has_write_char, \* the service has the command characteristic
  n_ind,          \* history: INDICATE characteristics the handshake found
  exc,            \* exception in flight, or that ended the attempt
  sync_ok,        \* value send_time_sync_command returned
  elapsed,        \* time.time() - start_time, in seconds
  end_cause,      \* how the collection loop ended
  rx_window,      \* history: notifications received inside the window
  last_data,      \* history: payload of the last notification of the window
  result,         \* value connect_to_device returns
  disc_outcome,   \* history: how peripheral.disconnect() ended
  attempt_base,   \* history: value of seq when the attempt started
  plugin_i,       \* _process_collected_measurements: position in plugins
  called,         \* history: plugins invoked in this attempt
  got,            \* history: batch each plugin was handed in this attempt
  sink_failed,    \* history: plugins that raised in this attempt
  mpc,            \* BS440mqtt: where process_measurements is
  sink_batch,     \* process_measurements: the argument measurements
  most_recent,    \* self.most_recent: the dict, items in insertion order
  current_person_id,  \* process_measurements: current_person_id
  connected,      \* self.connected
  loop_started,   \* client.loop_start() was called (line 41)
  pub_i,          \* position of the loop of line 207 in the items
  published_count,    \* process_measurements: published_count
  pub_calls,      \* history: measurements passed to client.publish
  n_batches,      \* history: calls of process_measurements so far
  prev_recent,    \* history: self.most_recent when the call started
  conn_seen,      \* history: self.connected held during this call
  last_cb         \* history: the last connection callback of the client

\* The state of the BS440mqtt plugin.
mqtt_vars == <<mpc, sink_batch, most_recent, current_person_id, connected,
               loop_started, pub_i, published_count, pub_calls, n_batches,
               prev_recent, conn_seen, last_cb>>

\* The state of the scanner and of a session.
ble_vars == <<pc, mac_addresses, target_macs, plugins, measurements, seq, cycle,
          devices, dev_i, cycle_results, scan_result, last_pause, device_addr,
          attempt, n_attempts, n_generic, links, ind_left, has_write_char, n_ind, exc, sync_ok,
          elapsed,
          end_cause, rx_window, last_data, result, disc_outcome, attempt_base,
          plugin_i, called, got, sink_failed>>

\* The state of the scanner with its decoder.
scanner_vars == <<ble_vars, dec_vars>>

vars == <<scanner_vars, mqtt_vars>>

\* What main sets up before its loop (lines 276-289): the configuration
\* and the plugins, whose state the scanner never touches.
cfg_vars == <<mac_addresses, target_macs, plugins, mqtt_vars, dec_vars>>

scan_vars == <<cycle, devices, dev_i, cycle_results, scan_result, last_pause>>

sink_vars == <<plugin_i, called, got, sink_failed>>

svc_vars == <<ind_left, has_write_char, n_ind>>

count_vars == <<n_attempts, n_generic>>

win_vars == <<sync_ok, elapsed, end_cause, rx_window, last_data>>

NoAddr == <<>>

NoPerson == -1      \* current_person_id = None

\* BS440mqtt.__init__ (lines 10-51): the dict is empty; connect() raised
\* (no loop, not connected) or the loop runs and on_connect may already
\* have been called during the half second of line 44.
SinkNew ==
  /\ mpc = "idle"
  /\ sink_batch = <<>>
  /\ most_recent = <<>>
  /\ current_person_id = NoPerson
  /\ loop_started \in BOOLEAN
  /\ connected \in (IF loop_started THEN BOOLEAN ELSE {FALSE})
  /\ pub_i = 1
  /\ published_count = 0
  /\ pub_calls = <<>>
  /\ n_batches = 0
  /\ prev_recent = <<>>
  /\ conn_seen = FALSE
  /\ last_cb = IF connected THEN "connect_ok" ELSE "none"

\* No payload is in the decoder's hands.
Pending == [type |-> "pending"]

\* MedisanaBS440 on a 64-bit build, before any notification.
DecoderIdle ==
  /\ payload = <<>>
  /\ parsed = Pending
  /\ sys_maxsize = MaxSize64

\* The scanner after BLEScanner.__init__ (lines 63-70) and main's setup.
ScannerInit ==
  /\ pc = "scan"
  /\ mac_addresses \in ConfigLists
  /\ target_macs = LowerAll(mac_addresses)
  /\ plugins \in 0..MaxPlugins
  /\ measurements = <<>>
  /\ seq = 0
  /\ cycle = 0
  /\ devices = <<>>
  /\ dev_i = 1
  /\ cycle_results = <<>>
  /\ scan_result = FALSE
  /\ last_pause = 0
  /\ device_addr = NoAddr
  /\ attempt = 0
  /\ n_attempts = 0
  /\ n_generic = 0
  /\ links = 0
  /\ ind_left = 0
  /\ has_write_char = FALSE
  /\ n_ind = 0
  /\ exc = "none"
  /\ sync_ok = FALSE
  /\ elapsed = 0
  /\ end_cause = "none"
  /\ rx_window = 0
  /\ last_data = <<>>
  /\ result = FALSE
  /\ disc_outcome = "none"
  /\ attempt_base = 0
  /\ plugin_i = 1
  /\ called = {}
  /\ got = [s \in {} |-> <<>>]
  /\ sink_failed = {}

\* main before its loop, with a plugin whose broker cannot be reached.
Init == ScannerInit /\ DecoderIdle /\ SinkNew /\ ~loop_started

\* The locals and the history of one attempt, as they are when it starts
\* (and again once the attempt is over and they are dead).
AttemptStart ==
  /\ ind_left' = 0
  /\ has_write_char' = FALSE
  /\ n_ind' = 0
  /\ sync_ok' = FALSE
  /\ elapsed' = 0
  /\ end_cause' = "none"
  /\ rx_window' = 0
  /\ last_data' = <<>>
  /\ disc_outcome' = "none"
  /\ attempt_base' = seq
  /\ plugin_i' = 1
  /\ called' = {}
  /\ got' = [s \in {} |-> <<>>]
  /\ sink_failed' = {}

\* ----------------------------------------------------------- scan_devices
\* scan_devices lines 219-220: self.scanner.scan(timeout=3.0) returns.
Scan ==
  /\ pc = "scan"
  /\ cycle < MaxCycles
  /\ \E ds \in ScanLists : devices' = ds
  /\ dev_i' = 1
  /\ cycle' = cycle + 1
  /\ cycle_results' = <<>>
  /\ last_pause' = 0
  /\ pc' = "for"
  /\ UNCHANGED <<count_vars, cfg_vars, measurements, seq, scan_result, device_addr, attempt, links, svc_vars, exc, win_vars, result,
                 disc_outcome, attempt_base, sink_vars>>

\* Lines 242-247 without the handlers: the exception of the scan leaves
\* scan_devices and main (lines 298-300), which logs it and raises.
ScanError_mut ==
  /\ pc = "scan"
  /\ cycle < MaxCycles
  /\ cycle' = cycle + 1
  /\ cycle_results' = <<>>
  /\ scan_result' = FALSE
  /\ last_pause' = 0
  /\ pc' = "exited"
  /\ UNCHANGED <<count_vars, cfg_vars, measurements, seq, devices, dev_i, device_addr, attempt, links, svc_vars, exc, win_vars, result,
                 disc_outcome, attempt_base, sink_vars>>

\* scan_devices lines 242-247: the scan raises BTLEException or another
\* Exception; both handlers log and the function returns False.
ScanError ==
  /\ pc = "scan"
  /\ cycle < MaxCycles
  /\ cycle' = cycle + 1
  /\ cycle_results' = <<>>
  /\ scan_result' = FALSE
  /\ last_pause' = 0
  /\ pc' = "main_ret"
  /\ UNCHANGED <<count_vars, cfg_vars, measurements, seq, devices, dev_i, device_addr, attempt, links, svc_vars, exc, win_vars, result,
                 disc_outcome, attempt_base, sink_vars>>

\* scan_devices lines 222-234: the next device is a target; connect to it.
ForTarget ==
  /\ pc = "for"
  /\ dev_i <= Len(devices)
  /\ IsTarget(devices[dev_i], target_macs)
  /\ device_addr' = devices[dev_i]
  /\ attempt' = 0
  /\ exc' = "none"
  /\ result' = FALSE
  /\ pc' = "attempt"
  /\ n_attempts' = 0
  /\ n_generic' = 0
  /\ UNCHANGED <<cfg_vars, measurements, seq, scan_vars, links, svc_vars,
                 win_vars, disc_outcome, attempt_base, sink_vars>>

\* scan_devices lines 236-237: the next device is ignored.
ForIgnore ==
  /\ pc = "for"
  /\ dev_i <= Len(devices)
  /\ ~IsTarget(devices[dev_i], target_macs)
  /\ dev_i' = dev_i + 1
  /\ UNCHANGED <<pc, count_vars, cfg_vars, measurements, seq, cycle, devices,
                 cycle_results, scan_result, last_pause, device_addr, attempt,
                 links, svc_vars, exc, win_vars, result, disc_outcome,
                 attempt_base, sink_vars>>

\* scan_devices lines 239-240 and 218: the for loop is over; sleep one
\* second and scan again.
ForEnd ==
  /\ pc = "for"
  /\ dev_i > Len(devices)
  /\ last_pause' = ScanPauseSecs
  /\ pc' = "scan"
  /\ UNCHANGED <<count_vars, cfg_vars, measurements, seq, cycle, devices, dev_i,
                 cycle_results, scan_result, device_addr, attempt, links,
                 svc_vars, exc, win_vars, result, disc_outcome, attempt_base,
                 sink_vars>>

\* Lines 234-235 without the return: the for loop goes on after True too.
Return_mut ==
  /\ pc = "ret"
  /\ cycle_results' = Append(cycle_results, result)
  /\ pc' = "for"
  /\ dev_i' = dev_i + 1
  /\ device_addr' = NoAddr
  /\ attempt' = 0
  /\ exc' = "none"
  /\ result' = FALSE
  /\ AttemptStart
  /\ n_attempts' = 0
  /\ n_generic' = 0
  /\ UNCHANGED <<cfg_vars, measurements, seq, cycle, devices, scan_result,
                 last_pause, links>>

\* scan_devices lines 234-235: connect_to_device returned.  True ends
\* scan_devices with True; False goes on with the next device.
Return ==
  /\ pc = "ret"
  /\ cycle_results' = Append(cycle_results, result)
  /\ IF result
       THEN /\ scan_result' = TRUE
            /\ pc' = "main_ret"
            /\ dev_i' = dev_i
       ELSE /\ scan_result' = scan_result
            /\ pc' = "for"
            /\ dev_i' = dev_i + 1
  /\ device_addr' = NoAddr
  /\ attempt' = 0
  /\ exc' = "none"
  /\ result' = FALSE
  /\ AttemptStart
  /\ n_attempts' = 0
  /\ n_generic' = 0
  /\ UNCHANGED <<cfg_vars, measurements, seq, cycle, devices, last_pause,
                 links>>

\* main lines 291-294: scan_devices returned; after False sleep 5 seconds.
MainLoop ==
  /\ pc = "main_ret"
  /\ last_pause' = IF scan_result THEN 0 ELSE MainPauseSecs
  /\ scan_result' = FALSE
  /\ pc' = "scan"
  /\ UNCHANGED <<count_vars, cfg_vars, measurements, seq, cycle, devices, dev_i,
                 cycle_results, device_addr, attempt, links,
                 svc_vars, exc, win_vars, result, disc_outcome, attempt_base,
                 sink_vars>>

\* ------------------------------------------------------ connect_to_device
\* Lines 191-212: where control goes when the finally block is done, or
\* when Peripheral() raises: return True, or the handler of the exception.
AfterAttempt(e) ==
  CASE e = "none" -> "ret"
    [] e = "disconnect" -> "h_disc"
    [] e = "btle" -> "h_btle"
    [] e = "other" -> "h_other"
    [] e = "interrupt" -> "exited"

\* Exceptions a transport call raises: BTLEDisconnectError, another
\* BTLEException, any other Exception.
Errors == {"disconnect", "btle", "other"}

\* Lines 116 and 214: the for loop is exhausted; return False.
LoopExhausted ==
  /\ pc = "attempt"
  /\ attempt >= max_retries
  /\ result' = FALSE
  /\ pc' = "ret"
  /\ UNCHANGED <<count_vars, cfg_vars, measurements, seq, scan_vars, device_addr, attempt,
                 links, svc_vars, exc, win_vars, disc_outcome, attempt_base,
                 sink_vars>>

\* Lines 116-122: btle.Peripheral(device_addr) connects.
Connect ==
  /\ pc = "attempt"
  /\ attempt < max_retries
  /\ links' = links + 1
  /\ exc' = "none"
  /\ AttemptStart
  /\ pc' = "discover"
  /\ n_attempts' = n_attempts + 1
  /\ n_generic' = n_generic
  /\ UNCHANGED <<cfg_vars, measurements, seq, scan_vars, device_addr, attempt,
                 result>>

\* Lines 120 and 201-212: btle.Peripheral(device_addr) raises; no link is
\* made and the exception reaches the handlers of the attempt.
ConnectFails ==
  /\ pc = "attempt"
  /\ attempt < max_retries
  /\ \E e \in Errors : exc' = e /\ pc' = AfterAttempt(e)
  /\ AttemptStart
  /\ n_attempts' = n_attempts + 1
  /\ n_generic' = n_generic
  /\ UNCHANGED <<cfg_vars, measurements, seq, scan_vars, device_addr, attempt,
                 links, result>>

\* Lines 125-135: the services are read; the weight service is among them
\* with its characteristics.
Discover ==
  /\ pc = "discover"
  /\ n_ind' \in 0..MaxInd
  /\ ind_left' = n_ind'
  /\ has_write_char' \in BOOLEAN
  /\ pc' = "enable"
  /\ UNCHANGED <<count_vars, cfg_vars, measurements, seq, scan_vars, device_addr, attempt,
                 links, exc, win_vars, result, disc_outcome, attempt_base,
                 sink_vars>>

\* Lines 134-135: no service has the weight service's uuid; the for loop
\* ends and control reaches the finally block.
NoService ==
  /\ pc = "discover"
  /\ pc' = "finally"
  /\ UNCHANGED <<count_vars, cfg_vars, measurements, seq, scan_vars, device_addr, attempt,
                 links, svc_vars, exc, win_vars, result, disc_outcome,
                 attempt_base, sink_vars>>

\* Lines 140-143: writeCharacteristic(handle + 1, 02 00) is acknowledged.
EnableIndication ==
  /\ pc = "enable"
  /\ ind_left > 0
  /\ ind_left' = ind_left - 1
  /\ UNCHANGED <<pc, count_vars, cfg_vars, measurements, seq, scan_vars, device_addr,
                 attempt, links, has_write_char, n_ind, exc, win_vars, result,
                 disc_outcome, attempt_base, sink_vars>>

\* Lines 146-151 run inside the loop of line 140: the commands start as
\* soon as the command characteristic is seen, whatever is left to enable.
FindWriteChar_mut ==
  /\ pc = "enable"
  /\ pc' = IF has_write_char THEN "start" ELSE "finally"
  /\ UNCHANGED <<count_vars, cfg_vars, measurements, seq, scan_vars, device_addr, attempt,
                 links, svc_vars, exc, win_vars, result, disc_outcome,
                 attempt_base, sink_vars>>

\* Lines 146-151: look for the command characteristic.
FindWriteChar ==
  /\ pc = "enable"
  /\ ind_left = 0
  /\ pc' = IF has_write_char THEN "start" ELSE "finally"
  /\ UNCHANGED <<count_vars, cfg_vars, measurements, seq, scan_vars, device_addr, attempt,
                 links, svc_vars, exc, win_vars, result, disc_outcome,
                 attempt_base, sink_vars>>

\* Line 153: write_char.write(01) is acknowledged.
StartCommand ==
  /\ pc = "start"
  /\ pc' = "sync"
  /\ UNCHANGED <<count_vars, cfg_vars, measurements, seq, scan_vars, device_addr, attempt,
                 links, svc_vars, exc, win_vars, result, disc_outcome,
                 attempt_base, sink_vars>>

\* Lines 126-153: discovery, getCharacteristics or an acknowledged write
\* raises; the exception leaves the inner try through the finally block.
SessionError ==
  /\ pc \in {"discover", "enable", "start"}
  /\ \E e \in Errors : exc' = e
  /\ pc' = "finally"
  /\ UNCHANGED <<count_vars, cfg_vars, measurements, seq, scan_vars, device_addr, attempt,
                 links, svc_vars, win_vars, result, disc_outcome,
                 attempt_base, sink_vars>>

\* Lines 158-171 with send_time_sync_command letting the exception of the
\* write through instead of returning False.
TimeSync_mut ==
  /\ pc = "sync"
  /\ \E ok \in BOOLEAN :
       IF ok
         THEN /\ sync_ok' = TRUE
              /\ measurements' = <<>>
              /\ pc' = "collect"
              /\ exc' = exc
         ELSE /\ sync_ok' = FALSE
              /\ measurements' = measurements
              /\ pc' = "finally"
              /\ exc' \in Errors
  /\ elapsed' = 0
  /\ n_ind' = 0
  /\ UNCHANGED <<count_vars, cfg_vars, seq, scan_vars, device_addr, attempt, links,
                 ind_left, has_write_char, end_cause, rx_window, last_data,
                 result, disc_outcome, attempt_base, sink_vars>>

\* Lines 158-171 and send_time_sync_command (249-270): the write succeeds
\* (True) or raises an Exception, which the function catches (False);
\* either way the buffer is cleared and the window starts (the handshake
\* is over, and so is its history).
TimeSync ==
  /\ pc = "sync"
  /\ sync_ok' \in BOOLEAN
  /\ measurements' = <<>>
  /\ elapsed' = 0
  /\ pc' = "collect"
  /\ n_ind' = 0
  /\ UNCHANGED <<count_vars, cfg_vars, seq, scan_vars, device_addr, attempt, links,
                 ind_left, has_write_char, exc, end_cause, rx_window,
                 last_data, result, disc_outcome, attempt_base, sink_vars>>

\* handleNotification without the test of line 105: whatever the decoder
\* returns is appended.
handleNotification_mut(ms, n, data) ==
  Append(ms, [rx |-> n, m |-> parse_measurement(data)])

\* handleNotification (101-111): a decoded measurement is appended.
handleNotification(ms, n, data) ==
  LET measurement == parse_measurement(data)
  IN IF measurement # None
       THEN Append(ms, [rx |-> n, m |-> measurement])
       ELSE ms

\* bluepy hands a notification to the delegate while a write waits for
\* its response (lines 143, 153 and 265).
HandshakeNotification ==
  /\ \/ pc = "enable" /\ ind_left > 0
     \/ pc \in {"start", "sync"}
  /\ seq < MaxNotifs
  /\ seq' = seq + 1
  /\ \E data \in Frames :
       measurements' = handleNotification(measurements, seq + 1, data)
  /\ UNCHANGED <<pc, count_vars, cfg_vars, scan_vars, device_addr, attempt, links,
                 svc_vars, exc, win_vars, result, disc_outcome, attempt_base,
                 sink_vars>>

\* Lines 173-177 with the clock restarted by every notification (an
\* idleness timer instead of a deadline).
CollectNotification_mut ==
  /\ pc = "collect"
  /\ elapsed < timeout
  /\ seq < MaxNotifs
  /\ seq' = seq + 1
  /\ rx_window' = rx_window + 1
  /\ \E data \in Frames :
       /\ measurements' = handleNotification(measurements, seq + 1, data)
       /\ last_data' = data
  /\ elapsed' = 0
  /\ UNCHANGED <<pc, count_vars, cfg_vars, scan_vars, device_addr, attempt, links,
                 svc_vars, exc, sync_ok, end_cause, result, disc_outcome,
                 attempt_base, sink_vars>>

\* Lines 173-177: waitForNotifications(1.0) returns True within the slice.
CollectNotification ==
  /\ pc = "collect"
  /\ elapsed < timeout
  /\ seq < MaxNotifs
  /\ seq' = seq + 1
  /\ rx_window' = rx_window + 1
  /\ \E data \in Frames :
       /\ measurements' = handleNotification(measurements, seq + 1, data)
       /\ last_data' = data
  /\ elapsed' \in {elapsed, elapsed + 1}
  /\ UNCHANGED <<pc, count_vars, cfg_vars, scan_vars, device_addr, attempt, links,
                 svc_vars, exc, sync_ok, end_cause, result, disc_outcome,
                 attempt_base, sink_vars>>

\* Lines 173-178: waitForNotifications(1.0) returns False after a second.
CollectIdle ==
  /\ pc = "collect"
  /\ elapsed < timeout
  /\ elapsed' = elapsed + 1
  /\ UNCHANGED <<pc, count_vars, cfg_vars, measurements, seq, scan_vars, device_addr,
                 attempt, links, svc_vars, exc, sync_ok, end_cause, rx_window,
                 last_data, result, disc_outcome, attempt_base, sink_vars>>

\* Line 173: the deadline has passed; the loop ends (start_time is not
\* read again).
CollectDeadline ==
  /\ pc = "collect"
  /\ elapsed >= timeout
  /\ end_cause' = "deadline"
  /\ elapsed' = 0
  /\ last_data' = <<>>
  /\ pc' = "process"
  /\ UNCHANGED <<count_vars, cfg_vars, measurements, seq, scan_vars,
                 device_addr, attempt, links, svc_vars, exc, sync_ok,
                 rx_window, result, disc_outcome, attempt_base, sink_vars>>

\* Lines 179-184 without the two except clauses: what waitForNotifications
\* raises leaves the inner try through the finally block.
CollectBreak_mut ==
  /\ pc = "collect"
  /\ elapsed < timeout
  /\ \E e \in {"disconnect", "btle"} :
       /\ exc' = e
       /\ end_cause' = IF e = "disconnect" THEN "disconnect" ELSE "error"
  /\ elapsed' = 0
  /\ last_data' = <<>>
  /\ pc' = "finally"
  /\ UNCHANGED <<count_vars, cfg_vars, measurements, seq, scan_vars, device_addr, attempt,
                 links, svc_vars, sync_ok, rx_window, result,
                 disc_outcome, attempt_base, sink_vars>>

\* Lines 179-184: waitForNotifications raises BTLEDisconnectError or
\* another Exception; the loop is left with break.
CollectBreak ==
  /\ pc = "collect"
  /\ elapsed < timeout
  /\ end_cause' \in {"disconnect", "error"}
  /\ elapsed' = 0
  /\ last_data' = <<>>
  /\ pc' = "process"
  /\ UNCHANGED <<count_vars, cfg_vars, measurements, seq, scan_vars,
                 device_addr, attempt, links, svc_vars, exc, sync_ok,
                 rx_window, result, disc_outcome, attempt_base, sink_vars>>

\* ------------------------------------------ _process_collected_measurements
\* Line 86 without the test of self.measurements.
ShouldDispatch_mut(n_plugins, batch) == n_plugins > 0

\* Line 86: if self.plugins and self.measurements.
ShouldDispatch(n_plugins, batch) == n_plugins > 0 /\ batch # <<>>

PluginPending == ShouldDispatch(plugins, measurements) /\ plugin_i <= plugins

\* Lines 89-95 without the try: a plugin that raises ends the for loop.
PluginCall_mut ==
  /\ pc \in {"process", "flush"}
  /\ PluginPending
  /\ called' = called \cup {plugin_i}
  /\ got' = [s \in called \cup {plugin_i} |->
               IF s = plugin_i THEN measurements ELSE got[s]]
  /\ \E raised \in BOOLEAN :
       /\ sink_failed' = IF raised THEN sink_failed \cup {plugin_i}
                                   ELSE sink_failed \ {plugin_i}
       /\ plugin_i' = IF raised THEN plugins + 1 ELSE plugin_i + 1
  /\ UNCHANGED <<pc, count_vars, cfg_vars, measurements, seq, scan_vars, device_addr,
                 attempt, links, svc_vars, exc, win_vars, result,
                 disc_outcome, attempt_base>>

\* Lines 89-95: plugin.process_measurements(self.measurements) returns or
\* raises an Exception, which is caught and logged.
PluginCall ==
  /\ pc \in {"process", "flush"}
  /\ PluginPending
  /\ called' = called \cup {plugin_i}
  /\ got' = [s \in called \cup {plugin_i} |->
               IF s = plugin_i THEN measurements ELSE got[s]]
  /\ \E raised \in BOOLEAN :
       sink_failed' = IF raised THEN sink_failed \cup {plugin_i}
                                ELSE sink_failed \ {plugin_i}
  /\ plugin_i' = plugin_i + 1
  /\ UNCHANGED <<pc, count_vars, cfg_vars, measurements, seq, scan_vars, device_addr,
                 attempt, links, svc_vars, exc, win_vars, result,
                 disc_outcome, attempt_base>>

\* Line 189 is done; control reaches the finally block.
ProcessDone ==
  /\ pc = "process"
  /\ ~PluginPending
  /\ pc' = "finally"
  /\ UNCHANGED <<count_vars, cfg_vars, measurements, seq, scan_vars, device_addr, attempt,
                 links, svc_vars, exc, win_vars, result, disc_outcome,
                 attempt_base, sink_vars>>

\* ------------------------------------------- connect_to_device, the exits
\* Finally with disconnect() called on the normal path only.
Finally_mut ==
  /\ pc = "finally"
  /\ links' = IF exc = "none" THEN links - 1 ELSE links
  /\ disc_outcome' \in {"ok", "error", "interrupt"}
  /\ pc' = AfterAttempt(exc)
  /\ result' = IF exc = "none" THEN TRUE ELSE result
  /\ UNCHANGED <<count_vars, cfg_vars, measurements, seq, scan_vars,
                 device_addr, attempt, svc_vars, exc, win_vars, attempt_base,
                 sink_vars>>

\* Finally with the return value telling whether anything was collected.
Finally_ret_mut ==
  /\ pc = "finally"
  /\ links' = links - 1
  /\ disc_outcome' \in {"ok", "error", "interrupt"}
  /\ pc' = AfterAttempt(exc)
  /\ result' = IF exc = "none" THEN measurements # <<>> ELSE result
  /\ UNCHANGED <<count_vars, cfg_vars, measurements, seq, scan_vars,
                 device_addr, attempt, svc_vars, exc, win_vars, attempt_base,
                 sink_vars>>

\* Lines 191-199: peripheral.disconnect() is called; whatever it raises is
\* swallowed by the bare except.  Then the exception in flight goes on to
\* its handler, or the function returns True.
Finally ==
  /\ pc = "finally"
  /\ links' = links - 1
  /\ disc_outcome' \in {"ok", "error", "interrupt"}
  /\ pc' = AfterAttempt(exc)
  /\ result' = IF exc = "none" THEN TRUE ELSE result
  /\ UNCHANGED <<count_vars, cfg_vars, measurements, seq, scan_vars, device_addr, attempt,
                 svc_vars, exc, win_vars, attempt_base, sink_vars>>

\* Lines 201-206 without the processing of the buffer.
HandleDisconnect_mut ==
  /\ pc = "h_disc"
  /\ pc' = "attempt"
  /\ attempt' = attempt + 1
  /\ AttemptStart
  /\ UNCHANGED <<count_vars, cfg_vars, measurements, seq, scan_vars,
                 device_addr, links, exc, result>>

\* Lines 201-205: BTLEDisconnectError; a non-empty buffer is processed.
HandleDisconnect ==
  /\ pc = "h_disc"
  /\ IF measurements # <<>>
       THEN /\ pc' = "flush"
            /\ plugin_i' = 1
            /\ UNCHANGED <<attempt, svc_vars, win_vars, disc_outcome,
                           attempt_base, called, got, sink_failed>>
       ELSE /\ pc' = "attempt"
            /\ attempt' = attempt + 1
            /\ AttemptStart
  /\ UNCHANGED <<count_vars, cfg_vars, measurements, seq, scan_vars, device_addr, links,
                 exc, result>>

\* Lines 205-206: the buffer is processed; sleep a second, next attempt.
FlushDone ==
  /\ pc = "flush"
  /\ ~PluginPending
  /\ attempt' = attempt + 1
  /\ pc' = "attempt"
  /\ AttemptStart
  /\ UNCHANGED <<count_vars, cfg_vars, measurements, seq, scan_vars, device_addr, links,
                 exc, result>>

\* Lines 207-209: another BTLEException; sleep a second, next attempt.
HandleBTLE ==
  /\ pc = "h_btle"
  /\ attempt' = attempt + 1
  /\ pc' = "attempt"
  /\ AttemptStart
  /\ n_generic' = n_generic + 1
  /\ n_attempts' = n_attempts
  /\ UNCHANGED <<cfg_vars, measurements, seq, scan_vars, device_addr, links,
                 exc, result>>

\* Lines 210-212 with the retry of the other handlers instead of break.
HandleOther_mut ==
  /\ pc = "h_other"
  /\ attempt' = attempt + 1
  /\ pc' = "attempt"
  /\ AttemptStart
  /\ UNCHANGED <<count_vars, cfg_vars, measurements, seq, scan_vars,
                 device_addr, links, exc, result>>

\* Lines 210-214: any other Exception; break, return False.
HandleOther ==
  /\ pc = "h_other"
  /\ result' = FALSE
  /\ pc' = "ret"
  /\ UNCHANGED <<count_vars, cfg_vars, measurements, seq, scan_vars, device_addr, attempt,
                 links, svc_vars, exc, win_vars, disc_outcome, attempt_base,
                 sink_vars>>

\* ------------------------------------------------------ operator interrupt
\* KeyboardInterrupt inside the inner try (lines 124-189): no except clause
\* there catches it, so it leaves through the finally block.
InterruptInSession ==
  /\ \/ pc \in {"discover", "enable", "start", "sync", "collect"}
     \/ pc = "process" /\ PluginPending
  /\ exc' = "interrupt"
  /\ elapsed' = 0
  /\ last_data' = <<>>
  /\ pc' = "finally"
  /\ UNCHANGED <<count_vars, cfg_vars, measurements, seq, scan_vars, device_addr, attempt,
                 links, svc_vars, sync_ok, end_cause, rx_window, result,
                 disc_outcome, attempt_base, sink_vars>>

\* KeyboardInterrupt outside the inner try (the scan, Peripheral(), the
\* sleeps, line 205): it reaches main (lines 296-297), which logs and ends.
InterruptOutside ==
  /\ \/ pc \in {"scan", "attempt", "h_btle", "main_ret"}
     \/ pc = "flush" /\ PluginPending
  /\ exc' = "interrupt"
  /\ pc' = "exited"
  /\ UNCHANGED <<count_vars, cfg_vars, measurements, seq, scan_vars, device_addr, attempt,
                 links, svc_vars, win_vars, result, disc_outcome,
                 attempt_base, sink_vars>>

\* -------------------------------------------------- plugins/bs440mqtt.py
\* Frames of the three kinds, as the scale sends them for user slot p with
\* embedded timestamp t (seconds since 2010, low byte).
PersonFrameOf(p) == <<132, 0, p, 0, 1, 30, 180, 0, 3>>

WeightFrameOf(p, t) == <<29, 76, 29, 3, 0, t, 0, 0, 0, 0, 0, 0, 0, p>>

BodyFrameOf(p) == <<111, 1, 0, 0, 0, p, 8, 7, 200, 0, 88, 2, 144, 1, 50, 0>>

\* The measurements a batch is made of: what the decoder returns for them.
SinkMeasurements ==
  { parse_measurement(PersonFrameOf(p)) : p \in 1..MaxPersons }
    \cup { parse_measurement(WeightFrameOf(p, t)) :
             p \in 1..MaxPersons, t \in 1..MaxStamps }
    \cup { parse_measurement(BodyFrameOf(p)) : p \in 1..MaxPersons }

Batches == UNION { [1..n -> SinkMeasurements] : n \in 0..MaxBatchLen }

\* A Python dict as the sequence of its items [key, m] in insertion order;
\* d[k] = v replaces the value of an existing key in place.
DictSet(d, k, v) ==
  IF \E i \in DOMAIN d : d[i].key = k
    THEN [i \in DOMAIN d |-> IF d[i].key = k THEN [key |-> k, m |-> v]
                                            ELSE d[i]]
    ELSE Append(d, [key |-> k, m |-> v])

\* The embedded timestamp of a measurement, as a number.
StampOf(m) == m.raw_timestamp[1] + 65536 * m.raw_timestamp[2]

\* process_measurement keeping the reading with the later embedded
\* timestamp instead of the one that arrived last.
process_measurement_mut(mr, measurement) ==
  IF measurement.type = "person" THEN mr
  ELSE LET key == <<measurement.person, measurement.type>>
       IN IF \E i \in DOMAIN mr :
               mr[i].key = key /\ StampOf(mr[i].m) > StampOf(measurement)
            THEN mr
            ELSE DictSet(mr, key, measurement)

\* process_measurement (lines 90-114): person data is skipped; any other
\* measurement replaces the entry of its (person, type) key.
process_measurement(mr, measurement) ==
  IF measurement.type = "person" THEN mr
  ELSE DictSet(mr, <<measurement.person, measurement.type>>, measurement)

\* Lines 178-184 falling back to the last measurement of the batch when it
\* holds no person measurement.
most_recent_person_measurement_mut(ms) ==
  IF \E i \in DOMAIN ms : ms[i].type = "person"
    THEN ms[CHOOSE i \in DOMAIN ms :
              /\ ms[i].type = "person"
              /\ \A j \in DOMAIN ms : ms[j].type = "person" => j <= i]
    ELSE IF ms = <<>> THEN None ELSE ms[Len(ms)]

RECURSIVE LastPersonFrom(_, _)
\* Lines 181-184: the loop over reversed(measurements), from position i.
LastPersonFrom(ms, i) ==
  IF i = 0 THEN None
  ELSE IF ms[i].type = "person" THEN ms[i]
  ELSE LastPersonFrom(ms, i - 1)

\* Lines 178-184: the last person measurement of the batch, or None.
most_recent_person_measurement(ms) == LastPersonFrom(ms, Len(ms))

RECURSIVE SecondPass(_, _, _, _)
\* Lines 195-198: the measurements of the current person, from position
\* i on, go through process_measurement in arrival order.
SecondPass(mr, ms, cur, i) ==
  IF i > Len(ms) THEN mr
  ELSE SecondPass(IF ms[i].person = cur
                    THEN process_measurement(mr, ms[i])
                    ELSE mr,
                  ms, cur, i + 1)

\* Line 171 left out: the dict of the earlier batch is kept.
ResetTracking_mut(mr) == mr

\* Line 171: self.most_recent = {}.
ResetTracking(mr) == <<>>

\* process_measurements, lines 168-205: the dict is reset, the current
\* person is looked up (return when there is none), the measurements of
\* that person are tracked (return when none was), and the publishing
\* loop starts.
ProcessMeasurements ==
  /\ mpc \in {"idle", "returned"}
  /\ n_batches < MaxBatches
  /\ n_batches' = n_batches + 1
  /\ prev_recent' = most_recent
  /\ \E ms \in Batches :
       /\ sink_batch' = ms
       /\ LET person == most_recent_person_measurement(ms)
          IN IF person = None
               THEN /\ current_person_id' = NoPerson
                    /\ most_recent' = ResetTracking(most_recent)
                    /\ mpc' = "returned"
               ELSE /\ current_person_id' = person.person
                    /\ most_recent' =
                         SecondPass(ResetTracking(most_recent), ms,
                                    person.person, 1)
                    /\ mpc' = IF most_recent' = <<>> THEN "returned"
                                                   ELSE "publish"
  /\ pub_i' = 1
  /\ published_count' = 0
  /\ pub_calls' = <<>>
  /\ conn_seen' = connected
  /\ UNCHANGED <<scanner_vars, connected, loop_started, last_cb>>

\* Lines 207-212 with _publish_measurement lacking the test of
\* self.connected (lines 118-120).
PublishMeasurement_mut ==
  /\ mpc = "publish"
  /\ pub_i <= Len(most_recent)
  /\ IF most_recent[pub_i].key[1] = current_person_id
       THEN mpc' = "publishing" /\ pub_i' = pub_i
       ELSE mpc' = mpc /\ pub_i' = pub_i + 1
  /\ UNCHANGED <<scanner_vars, sink_batch, most_recent, current_person_id,
                 connected, loop_started, published_count, pub_calls,
                 n_batches, prev_recent, conn_seen, last_cb>>

\* Lines 207-212 and _publish_measurement up to its test of the flag
\* (116-120) for the next item of the dict: self.connected is read; when
\* it is False the method returns False at once and the loop goes on.
PublishMeasurement ==
  /\ mpc = "publish"
  /\ pub_i <= Len(most_recent)
  /\ IF most_recent[pub_i].key[1] = current_person_id /\ connected
       THEN mpc' = "publishing" /\ pub_i' = pub_i
       ELSE mpc' = mpc /\ pub_i' = pub_i + 1
  /\ UNCHANGED <<scanner_vars, sink_batch, most_recent, current_person_id,
                 connected, loop_started, published_count, pub_calls,
                 n_batches, prev_recent, conn_seen, last_cb>>

\* _publish_measurement, lines 122-166: topic and payload are built and
\* client.publish is called; it returns success (True), returns an error
\* code such as MQTT_ERR_NO_CONN (False) or raises (caught, False).  The
\* flag is not read again.
ClientPublish ==
  /\ mpc = "publishing"
  /\ pub_calls' = Append(pub_calls, most_recent[pub_i].m)
  /\ \E outcome \in {"ok", "rc_error", "raised"} :
       published_count' = IF outcome = "ok" THEN published_count + 1
                                            ELSE published_count
  /\ pub_i' = pub_i + 1
  /\ mpc' = "publish"
  /\ UNCHANGED <<scanner_vars, sink_batch, most_recent, current_person_id,
                 connected, loop_started, n_batches, prev_recent, conn_seen,
                 last_cb>>

\* Line 214: the loop over the items is over; the method returns.
PublishDone ==
  /\ mpc = "publish"
  /\ pub_i > Len(most_recent)
  /\ mpc' = "returned"
  /\ UNCHANGED <<scanner_vars, sink_batch, most_recent, current_person_id,
                 connected, loop_started, pub_i, published_count, pub_calls,
                 n_batches, prev_recent, conn_seen, last_cb>>

\* on_connect setting the flag whatever the result code is.
on_connect_mut ==
  /\ loop_started
  /\ \E rc \in {0, 5} :
       /\ connected' = TRUE
       /\ last_cb' = IF rc = 0 THEN "connect_ok" ELSE "connect_refused"
  /\ conn_seen' = (conn_seen \/ mpc \in {"publish", "publishing"})
  /\ UNCHANGED <<scanner_vars, mpc, sink_batch, most_recent,
                 current_person_id, loop_started, pub_i, published_count,
                 pub_calls, n_batches, prev_recent>>

\* on_connect (lines 53-68), called by the client's network thread with
\* result code 0 (accepted) or 5 (not authorised), at any point of
\* process_measurements.
on_connect ==
  /\ loop_started
  /\ \E rc \in {0, 5} :
       /\ connected' = (rc = 0)
       /\ last_cb' = IF rc = 0 THEN "connect_ok" ELSE "connect_refused"
  /\ conn_seen' = (conn_seen \/
                     (connected' /\ mpc \in {"publish", "publishing"}))
  /\ UNCHANGED <<scanner_vars, mpc, sink_batch, most_recent,
                 current_person_id, loop_started, pub_i, published_count,
                 pub_calls, n_batches, prev_recent>>

\* on_disconnect (lines 70-76), called by the client's network thread, at
\* any point of process_measurements.
on_disconnect ==
  /\ loop_started
  /\ connected' = FALSE
  /\ last_cb' = "disconnect"
  /\ UNCHANGED <<scanner_vars, mpc, sink_batch, most_recent,
                 current_person_id, loop_started, pub_i, published_count,
                 pub_calls, n_batches, prev_recent, conn_seen>>

\* ---------------------------------------------------------- specification
Next ==
  \/ Scan
  \/ ScanError
  \/ ForTarget
  \/ ForIgnore
  \/ ForEnd
  \/ Return
  \/ MainLoop
  \/ LoopExhausted
  \/ Connect
  \/ ConnectFails
  \/ Discover
  \/ NoService
  \/ EnableIndication
  \/ FindWriteChar
  \/ StartCommand
  \/ SessionError
  \/ TimeSync
  \/ HandshakeNotification
  \/ CollectNotification
  \/ CollectIdle
  \/ CollectDeadline
  \/ CollectBreak
  \/ PluginCall
  \/ ProcessDone
  \/ Finally
  \/ HandleDisconnect
  \/ FlushDone
  \/ HandleBTLE
  \/ HandleOther
  \/ InterruptInSession
  \/ InterruptOutside

Spec == Init /\ [][Next]_vars

\* The thread always takes its next step: every blocking call is bounded by
\* a transport timeout or by the collection deadline.
FairSpec == Spec /\ WF_vars(Next)

\* The MQTT sink on its own: the plugin as its constructor left it, handed
\* one batch after the other while its client connects and disconnects.
SinkInit ==
  /\ ScannerInit /\ plugins = 1 /\ Len(mac_addresses) = 1
  /\ DecoderIdle
  /\ SinkNew

SinkNext ==
  \/ ProcessMeasurements
  \/ PublishMeasurement
  \/ ClientPublish
  \/ PublishDone
  \/ on_connect
  \/ on_disconnect

SinkSpec == SinkInit /\ [][SinkNext]_vars

\* ------------------------------------------------- the decoder on its own
LoByte(x) == x % 256

HiByte(x) == x \div 256

\* A payload of n bytes that starts with opcode op.
Truncated(op, n) == [i \in 1..n |-> IF i = 1 THEN op ELSE 1]

\* A weight frame (format BHxxIxxxxB): weight w, status st, the four
\* timestamp bytes t, person p.
WeightPayload(w, st, t, p) ==
  <<29, LoByte(w), HiByte(w), st, 0, t[1], t[2], t[3], t[4], 0, 0, 0, 0, p>>

\* A body frame (format BIBHHHHH): timestamp bytes t, person p, kcal, and
\* the fields f (fat, muscle) and g (water, bone).
BodyPayload(t, p, kcal, f, g) ==
  <<111, t[1], t[2], t[3], t[4], p, LoByte(kcal), HiByte(kcal),
    LoByte(f), HiByte(f), LoByte(g), HiByte(g),
    LoByte(f), HiByte(f), LoByte(g), HiByte(g)>>

\* Timestamp bytes around 0, around 2^31 - 1 - 1262304000 (FF C4 C2 34),
\* around 2^31 - 1 (FF FF FF 7F) and up to 2^32 - 1.
StampBytes ==
  { <<a, b, c, d>> : a \in {0, 254, 255}, b \in {0, 196, 255},
                     c \in {0, 194, 255}, d \in {0, 52, 127, 128, 255} }

NoStamp == <<0, 0, 0, 0>>

\* Field values with every top nibble: 0x0064, 0x1064, 0x0FFF, 0xF000,
\* 0xFFFF and 0.
FieldValues == {100, 4196, 4095, 61440, 65535, 0}

\* The payloads handed to the decoder: every opcode at every length, and
\* full frames over the timestamps, the status bytes and the fields.
Payloads ==
  { Truncated(op, n) : op \in {132, 29, 111, 255, 0}, n \in 0..MaxFrameLen }
    \cup { WeightPayload(7500, 3, t, 1) : t \in StampBytes }
    \cup { BodyPayload(t, 1, 2000, 4196, 100) : t \in StampBytes }
    \cup { WeightPayload(w, st, NoStamp, p) :
             w \in {0, 7500, 7501, 65535},
             st \in {0, 1, 2, 3, 252, 253, 254, 255}, p \in {1, 255} }
    \cup { BodyPayload(NoStamp, p, kcal, f, g) :
             p \in {1, 255}, kcal \in {0, 61441, 65535},
             f \in FieldValues, g \in FieldValues }

\* A notification is handed to parse_measurement.
Receive ==
  /\ parsed # Pending
  /\ payload' \in Payloads
  /\ parsed' = Pending
  /\ UNCHANGED <<ble_vars, mqtt_vars, sys_maxsize>>

\* parse_measurement returns.
Parse ==
  /\ parsed = Pending
  /\ parsed' = parse_measurement(payload)
  /\ UNCHANGED <<ble_vars, mqtt_vars, payload, sys_maxsize>>

DecoderInit ==
  /\ ScannerInit /\ plugins = 1 /\ Len(mac_addresses) = 1
  /\ SinkNew /\ ~loop_started
  /\ payload \in Payloads
  /\ parsed = Pending
  /\ sys_maxsize \in {MaxSize32, MaxSize64}

DecoderNext ==
  \/ Receive
  \/ Parse

DecoderSpec == DecoderInit /\ [][DecoderNext]_vars

\* ------------------------------------------------------------------ claims
\* The calls made while a Peripheral is connected (lines 124-197).
InSession ==
  pc \in {"discover", "enable", "start", "sync", "collect", "process",
          "finally"}

\* C1: once Peripheral() has connected, disconnect() is called on that link
\* before the attempt ends, on the normal path and on every exception or
\* interrupt that leaves the inner try; what disconnect() itself raises is
\* ignored (the attempt goes on as the exception in flight, or the normal
\* return, decides); so no link is open outside a session and at most one
\* is open at any time.
C1_DisconnectOnEveryPath ==
  /\ [](links \in {0, 1} /\ (links = 1 <=> InSession))
  /\ [][pc = "finally" =>
          /\ links' = 0
          /\ exc' = exc
          /\ (exc = "none" => pc' = "ret" /\ result')
          /\ (exc = "disconnect" => pc' = "h_disc")
          /\ (exc = "btle" => pc' = "h_btle")
          /\ (exc = "other" => pc' = "h_other")
          /\ (exc = "interrupt" => pc' = "exited")]_vars

\* A disconnect during the handshake, then disconnect() itself raised.
C1_Witness ==
  pc = "h_disc" /\ exc = "disconnect" /\ disc_outcome = "error" /\ links = 0

\* The window ran to its deadline and no notification arrived in it.
SilentWindow == end_cause = "deadline" /\ rx_window = 0

\* C2 as claimed: a session that receives no notification during the full
\* window still disconnects, and connect_to_device returns False without
\* raising.
C2_SilentSessionFails ==
  (SilentWindow /\ pc = "ret") => (links = 0 /\ result = FALSE)

\* C2, amended: a session that receives no notification during the full
\* window raises nothing (no exception is in flight after the window), is
\* disconnected, and connect_to_device returns True.
C2_SilentSessionReturnsTrue ==
  SilentWindow =>
    /\ exc = "none"
    /\ pc \in {"process", "finally", "ret"}
    /\ (pc = "ret" => links = 0 /\ result = TRUE)

C2_Witness ==
  SilentWindow /\ pc = "ret" /\ measurements = <<>> /\ disc_outcome = "ok"

\* Every registered plugin was handed the buffer as it is now.
AllSinksGot(batch) ==
  \A s \in 1..plugins : s \in called /\ got[s] = batch

\* C3 as claimed: a batch handed to the sinks during an attempt holds only
\* measurements decoded during that attempt (rx numbers the notifications;
\* attempt_base is the number reached when the attempt started).
C3_BatchOfThisAttemptOnly ==
  \A s \in called : \A i \in DOMAIN got[s] : got[s][i].rx > attempt_base

\* Line 116: the for loop has an attempt left after this one.
AttemptsRemain == attempt + 1 < max_retries

\* C4 as claimed: after a disconnect at any point before collection
\* completes (raised by Peripheral(), discovery, an enable write or the
\* start command: exc; or inside the window: end_cause), with attempts
\* remaining, connect_to_device starts a new attempt; so it does not
\* return from this attempt.
C4_RetryAfterAnyDisconnect ==
  ((exc = "disconnect" \/ end_cause = "disconnect") /\ AttemptsRemain)
    => pc # "ret"

\* C4, amended: a disconnect raised while establishing the link,
\* discovering services, enabling indications or writing the start command
\* is followed, when attempts remain, by a new attempt (the call does not
\* return), and the step to the new attempt is taken only after every
\* registered sink was handed the buffer, when the buffer is non-empty; a
\* disconnect raised inside the window starts no new attempt: collection
\* ends and the call returns True.
C4_RetryAfterHandshakeDisconnect ==
  /\ [](exc = "disconnect" =>
          /\ pc \in {"finally", "h_disc", "flush", "attempt", "ret"}
          /\ (pc = "ret" => attempt = max_retries /\ result = FALSE))
  /\ [][(exc = "disconnect" /\ pc \in {"h_disc", "flush"} /\ pc' = "attempt")
          => /\ attempt' = attempt + 1
             /\ (ShouldDispatch(plugins, measurements)
                   => AllSinksGot(measurements))]_vars
  /\ [](end_cause = "disconnect" =>
          /\ pc \in {"process", "finally", "ret", "exited"}
          /\ (pc = "ret" => result = TRUE))

\* A notification arrived during the handshake of the first attempt, the
\* link then dropped, and the plugin has been handed the buffer.
C4_Witness ==
  /\ pc = "flush" /\ exc = "disconnect" /\ attempt = 0 /\ links = 0
  /\ plugins > 0 /\ ~PluginPending /\ AllSinksGot(measurements)
  /\ measurements # <<>>

\* The collection loop is over and nothing was raised by it.
CollectionOver == pc = "finally" /\ end_cause # "none" /\ exc = "none"

\* C5 as claimed: at the end of the collection phase the batch, an empty
\* one included, has been handed to every registered sink, however the
\* window ended.
C5_BatchAlwaysHandedOver == CollectionOver => AllSinksGot(measurements)

\* C5, amended: at the end of the collection phase a non-empty batch has
\* been handed to every registered sink, whether the window ended at the
\* deadline or early; an empty batch is handed to no sink.
C5_NonEmptyBatchHandedOver ==
  CollectionOver =>
    IF measurements # <<>> THEN AllSinksGot(measurements) ELSE called = {}

C5_Witness ==
  /\ CollectionOver /\ end_cause = "disconnect" /\ plugins > 0
  /\ measurements # <<>> /\ AllSinksGot(measurements)

\* connect_to_device is running (lines 115-214).
InCall ==
  InSession \/ pc \in {"attempt", "h_disc", "flush", "h_btle", "h_other"}

\* C6: a call of connect_to_device makes at most 3 attempts and ends (it
\* returns, or an operator interrupt ends the program); when every attempt
\* of the call failed with a BTLEException that is no disconnect, it
\* returns False after exactly 3 attempts; and no plugin is invoked in an
\* attempt that fails this way.
C6_ThreeAttemptsThenFalse ==
  /\ [](n_attempts <= 3)
  /\ []((pc = "ret" /\ n_generic = n_attempts)
          => (result = FALSE /\ n_attempts = 3))
  /\ []((exc = "btle" /\ pc \in {"finally", "h_btle"}) => called = {})
  /\ (InCall ~> ~InCall)

C6_Witness ==
  /\ pc = "ret" /\ n_generic = 3 /\ n_attempts = 3 /\ result = FALSE
  /\ plugins > 0 /\ measurements # <<>> /\ called = {}

CycleFailed ==
  cycle_results # <<>> /\ \A i \in DOMAIN cycle_results : ~cycle_results[i]

\* C8 as claimed: when connect_to_device failed for the matched devices of
\* a scan cycle, the 5 second pause of main is taken before the next scan.
C8_LongPauseAfterFailedCycle ==
  (pc = "scan" /\ CycleFailed) => last_pause = MainPauseSecs

\* C9 as claimed: once a session was run for the first matching device of
\* a cycle, no other device of that cycle is evaluated or connected to,
\* whatever the session returned.
C9_OneSessionPerCycle ==
  cycle_results # <<>> =>
    /\ ~InCall
    /\ (pc = "for" => dev_i > Len(devices))

\* The number of targets among the first n devices of the scan.
TargetsBefore(n) ==
  Cardinality({i \in 1..n : IsTarget(devices[i], target_macs)})

\* C9, amended: the devices of a cycle are evaluated in scan order and a
\* session is run for each one that matches (so the first session is for
\* the first match); once a session returns True no other device of the
\* cycle is evaluated or connected to; after a session that returns False
\* the for loop goes on with the next device.
C9_StopAfterSuccessfulSession ==
  /\ [](\A i \in DOMAIN cycle_results :
          cycle_results[i] =>
            /\ i = Len(cycle_results)
            /\ pc \in {"main_ret", "scan", "exited"})
  /\ []((pc = "for" \/ InCall) =>
          /\ Len(cycle_results) = TargetsBefore(dev_i - 1)
          /\ (InCall => /\ dev_i <= Len(devices)
                        /\ device_addr = devices[dev_i]
                        /\ IsTarget(device_addr, target_macs)))
  /\ [][(pc = "ret" /\ ~result) => (pc' = "for" /\ dev_i' = dev_i + 1)]_vars
  /\ [][(pc = "ret" /\ result) => pc' = "main_ret"]_vars

\* The first target failed, the second was tried and returned True.
C9_Witness ==
  pc = "main_ret" /\ cycle_results = <<FALSE, TRUE>> /\ dev_i = 2

\* C10: connect_to_device runs only for a scanned device whose lower-cased
\* address is among the lower-cased configured addresses; no link is ever
\* opened to another address.
C10_OnlyAllowlisted ==
  /\ (InCall \/ links > 0) => device_addr # NoAddr
  /\ device_addr # NoAddr =>
       /\ InList(Lower(device_addr), LowerAll(mac_addresses))
       /\ \E i \in DOMAIN mac_addresses :
            \A k \in DOMAIN device_addr :
              LowerChar(device_addr[k]) = LowerChar(mac_addresses[i][k])

\* The scan reported "b2", the file configures "B2", and a link is open.
C10_Witness ==
  /\ links = 1 /\ device_addr = <<"b", "2">>
  /\ InList(<<"B", "2">>, mac_addresses)

\* scan_devices returned False to main: the scan raised (lines 242-247).
ScanFailed == pc = "main_ret" /\ ~scan_result

\* C11: an error raised by the scan never ends the process (the program
\* exits only on an operator interrupt): scan_devices returns False, main
\* sleeps 5 seconds and calls scan_devices again, so after a failed scan
\* the next scan is eventually started (unless the operator interrupts).
C11_ScanErrorNotFatal ==
  /\ [](pc = "exited" => exc = "interrupt")
  /\ [][(pc = "scan" /\ pc' \notin {"for", "exited"}) => ScanFailed']_vars
  /\ [][ScanFailed => \/ pc' = "scan" /\ last_pause' = MainPauseSecs
                      \/ pc' = "exited" /\ exc' = "interrupt"]_vars
  /\ (ScanFailed ~> (pc = "scan" \/ pc = "exited"))

\* The first scan raised, main paused and the second scan is starting.
C11_Witness ==
  pc = "scan" /\ cycle = 1 /\ last_pause = MainPauseSecs /\ devices = <<>>

\* C12: the collection loop is left on the wall-clock deadline counted
\* from start_time: while the loop runs the time since start_time never
\* goes back, with or without a notification in the slice; the loop ends
\* by the deadline exactly when 30 seconds have passed; before that it is
\* left only by an exception or an interrupt, never by a slice without a
\* notification; and the loop always ends.
C12_DeadlineNotIdleness ==
  /\ [][(pc = "collect" /\ pc' = "collect")
          => /\ elapsed' \in {elapsed, elapsed + 1}
             /\ (seq' = seq => elapsed' = elapsed + 1)
             /\ elapsed < timeout]_vars
  /\ [][(pc = "collect" /\ end_cause' = "deadline")
          => (elapsed >= timeout /\ pc' = "process")]_vars
  /\ [][(pc = "collect" /\ elapsed < timeout /\ pc' # "collect")
          => \/ pc' = "process" /\ end_cause' \in {"disconnect", "error"}
             \/ pc' = "finally" /\ exc' = "interrupt"]_vars
  /\ (pc = "collect" ~> pc # "collect")

\* The window was left at the deadline after notifications had arrived in
\* it.
C12_Witness ==
  pc = "process" /\ end_cause = "deadline" /\ rx_window >= 2 /\ exc = "none"

\* C13: a notification of the window whose payload parse_measurement does
\* not decode leaves the buffer as it was, raises nothing and does not end
\* the loop (the thread stays in the collection loop with no exception in
\* flight); a payload that decodes is appended, also after an undecodable
\* one; so the buffer never holds an undecoded entry.
C13_UndecodableDropped ==
  /\ [][(pc = "collect" /\ seq' # seq) =>
          /\ pc' = "collect" /\ exc' = "none" /\ end_cause' = "none"
          /\ IF parse_measurement(last_data') = None
               THEN measurements' = measurements
               ELSE measurements' =
                      Append(measurements,
                             [rx |-> seq', m |-> parse_measurement(last_data')])
        ]_vars
  /\ [](\A i \in DOMAIN measurements : measurements[i].m # None)

\* In one window an undecodable payload came first and was dropped, then a
\* weight frame came and was buffered.
C13_Witness ==
  /\ pc = "collect" /\ rx_window = 2 /\ seq = 2 /\ last_data = WeightFrame
  /\ Len(measurements) = 1 /\ measurements[1].rx = 2
  /\ measurements[1].m.type = "weight"

\* The collection loop was left by an exception of waitForNotifications.
EarlyEnd == end_cause \in {"disconnect", "error"}

\* C14: a BTLEDisconnectError or another error raised by
\* waitForNotifications inside the window ends the loop before the
\* deadline with no exception in flight and the buffer intact; the attempt
\* goes on to the processing of the buffer and is never retried; the sinks
\* are called while the link is still open, and when the link is about to
\* be released every registered sink has been handed the buffered
\* measurements.
C14_EarlyEndStillDispatches ==
  /\ [][(pc = "collect" /\ EarlyEnd') =>
          /\ elapsed < timeout /\ pc' = "process" /\ exc' = "none"
          /\ measurements' = measurements /\ attempt' = attempt
          /\ links' = 1]_vars
  /\ [](EarlyEnd =>
          /\ pc \in {"process", "finally", "ret", "exited"}
          /\ (pc = "process" => links = 1)
          /\ ((pc = "finally" /\ exc = "none" /\ measurements # <<>>)
                => (links = 1 /\ AllSinksGot(measurements))))
  /\ [][(EarlyEnd /\ pc = "process" /\ plugin_i' # plugin_i)
          => (links = 1 /\ got'[plugin_i] = measurements)]_vars

\* A transport error ended the window; the plugin has the buffered
\* measurement and disconnect() has not been called yet.
C14_Witness ==
  /\ pc = "finally" /\ end_cause = "error" /\ exc = "none" /\ links = 1
  /\ plugins > 0 /\ measurements # <<>> /\ AllSinksGot(measurements)

\* send_time_sync_command returned False and the window was opened.
SyncFailed == ~sync_ok /\ (pc = "collect" \/ end_cause # "none")

\* C15: whatever the time-sync write does, the step after it opens the
\* collection window in the same attempt, with the link open and no
\* exception in flight (only an operator interrupt leaves instead); after
\* a failed sync the attempt runs its window and its processing and the
\* call returns True: it never goes back to a new attempt.
C15_SyncFailureTolerated ==
  /\ [][(pc = "sync" /\ pc' # "sync") =>
          \/ /\ pc' = "collect" /\ exc' = "none" /\ links' = 1
             /\ attempt' = attempt /\ n_attempts' = n_attempts
             /\ elapsed' = 0 /\ measurements' = <<>>
          \/ pc' = "finally" /\ exc' = "interrupt"]_vars
  /\ [](SyncFailed =>
          /\ pc \in {"collect", "process", "finally", "ret", "exited"}
          /\ exc \in {"none", "interrupt"}
          /\ (pc = "ret" => result = TRUE))

\* The sync write failed in the first attempt; the window still ran to its
\* deadline, a measurement was collected and the call returned True.
C15_Witness ==
  /\ pc = "ret" /\ ~sync_ok /\ end_cause = "deadline" /\ result = TRUE
  /\ n_attempts = 1 /\ measurements # <<>>

\* _process_collected_measurements is running or has just run.
Dispatching == pc \in {"process", "flush", "finally"}

\* C19: the plugins are called in registration order (those called so far
\* are the first plugin_i - 1), each with the whole buffer in arrival
\* order; a call that raises is caught: the loop goes on with the next
\* plugin, no exception is in flight because of it, the attempt counter
\* does not change, a session in which a plugin raised still hands the
\* batch to every plugin and returns True, and the flush of the disconnect
\* handler is followed by the next attempt once every plugin was called.
C19_SinkFailureIsolated ==
  /\ [](Dispatching =>
          /\ sink_failed \subseteq called
          /\ \A s \in called : got[s] = measurements
          /\ (pc # "finally" => called = 1..(plugin_i - 1)))
  /\ [][(pc \in {"process", "flush"} /\ plugin_i' = plugin_i + 1) =>
          /\ pc' = pc /\ exc' = exc /\ result' = result
          /\ attempt' = attempt /\ n_attempts' = n_attempts
          /\ measurements' = measurements]_vars
  /\ []((sink_failed # {} /\ exc = "none" /\ pc \in {"finally", "ret"}) =>
          /\ AllSinksGot(measurements)
          /\ (pc = "ret" => result = TRUE))
  /\ [][(pc = "flush" /\ pc' = "attempt") =>
          /\ attempt' = attempt + 1 /\ n_attempts' = n_attempts
          /\ (plugins > 0 => AllSinksGot(measurements))]_vars

\* Two plugins: the first raised, the second was still handed the batch,
\* and connect_to_device returned True after its single attempt.
C19_Witness ==
  /\ pc = "ret" /\ plugins = 2 /\ sink_failed = {1} /\ called = {1, 2}
  /\ got[2] = measurements /\ Len(measurements) = 2
  /\ result = TRUE /\ n_attempts = 1

\* ------------------------------------------------- claims on the MQTT sink
\* process_measurements has built the dict for sink_batch.
Aggregated == mpc \in {"publish", "publishing", "returned"}

\* Positions of the person measurements of a batch.
PersonIdx(ms) == {i \in DOMAIN ms : ms[i].type = "person"}

\* Positions of the measurements of kind k and person p.
OfKind(ms, p, k) == {i \in DOMAIN ms : ms[i].type = k /\ ms[i].person = p}

Last(S) == CHOOSE x \in S : \A y \in S : y <= x

\* The kinds of measurement that are no person data.
Kinds == {"weight", "body"}

\* C16: for a batch with a person measurement, current_person_id is the
\* person of the one that arrived last; the dict has, for each kind other
\* than person of which the batch holds a measurement of that person, one
\* entry, the measurement of that kind and person that arrived last
\* (whatever the embedded timestamps); it has no entry of another person
\* and no person entry; and what is passed to client.publish are entries
\* of the dict, each at most once.
C16_LastArrivedOfCurrentPerson ==
  (Aggregated /\ PersonIdx(sink_batch) # {}) =>
    LET cur == sink_batch[Last(PersonIdx(sink_batch))].person
    IN /\ current_person_id = cur
       /\ \A k \in Kinds :
            OfKind(sink_batch, cur, k) # {} =>
              \E i \in DOMAIN most_recent :
                /\ most_recent[i].key = <<cur, k>>
                /\ most_recent[i].m = sink_batch[Last(OfKind(sink_batch, cur, k))]
       /\ \A i \in DOMAIN most_recent :
            /\ most_recent[i].key[1] = cur
            /\ most_recent[i].key[2] \in Kinds
            /\ OfKind(sink_batch, cur, most_recent[i].key[2]) # {}
            /\ most_recent[i].m.person = cur
            /\ most_recent[i].m.type = most_recent[i].key[2]
            /\ \A j \in DOMAIN most_recent :
                 most_recent[j].key = most_recent[i].key => j = i
       /\ Len(pub_calls) < pub_i
       /\ \A j \in DOMAIN pub_calls :
            \E i \in 1..(pub_i - 1) :
              /\ pub_calls[j] = most_recent[i].m
              /\ \A h \in DOMAIN pub_calls : pub_calls[h] = pub_calls[j] => h = j

\* Person 1, then two weights of person 1 of which the first carries the
\* later timestamp: the second one is in the dict and was published.
C16_Witness ==
  /\ mpc = "returned"
  /\ sink_batch = << parse_measurement(PersonFrameOf(1)),
                     parse_measurement(WeightFrameOf(1, 2)),
                     parse_measurement(WeightFrameOf(1, 1)) >>
  /\ most_recent = << [key |-> <<1, "weight">>,
                       m |-> parse_measurement(WeightFrameOf(1, 1))] >>
  /\ pub_calls = << parse_measurement(WeightFrameOf(1, 1)) >>
  /\ published_count = 1

\* C17: for a batch without a person measurement process_measurements
\* returns at once: the dict is empty, the publishing loop is never
\* entered, nothing is passed to client.publish and nothing is counted as
\* published, whatever weight and body measurements the batch holds.
C17_NoPersonNothingPublished ==
  /\ []((n_batches > 0 /\ PersonIdx(sink_batch) = {}) =>
          /\ mpc = "returned"
          /\ current_person_id = NoPerson
          /\ most_recent = <<>>
          /\ pub_calls = <<>>
          /\ published_count = 0)
  /\ [][(n_batches' # n_batches /\ PersonIdx(sink_batch') = {})
          => (mpc' = "returned" /\ most_recent' = <<>>)]_vars

\* A batch of a weight and a body measurement of person 1, handed to a
\* connected sink whose dict held entries of the batch before.
C17_Witness ==
  /\ mpc = "returned" /\ n_batches = 2 /\ connected
  /\ prev_recent # <<>>
  /\ sink_batch = << parse_measurement(WeightFrameOf(1, 1)),
                     parse_measurement(BodyFrameOf(1)) >>
  /\ most_recent = <<>> /\ pub_calls = <<>>

\* The dict process_measurements builds for a batch when it starts from
\* an empty dict.
FreshMap(ms) ==
  LET person == most_recent_person_measurement(ms)
  IN IF person = None THEN <<>> ELSE SecondPass(<<>>, ms, person.person, 1)

\* C18: the dict is rebuilt for every batch: whatever it held before the
\* call (the result of the earlier batches), after the call it is the dict
\* a new sink builds for this batch alone; and what is passed to
\* client.publish are, in order, items of that dict (which of them
\* depends on the connection only).
C18_MapDependsOnBatchOnly ==
  /\ [](Aggregated =>
          /\ most_recent = FreshMap(sink_batch)
          /\ \A j \in DOMAIN pub_calls :
               \E i \in j..Len(FreshMap(sink_batch)) :
                 pub_calls[j] = FreshMap(sink_batch)[i].m)
  /\ [][n_batches' # n_batches =>
          /\ prev_recent' = most_recent
          /\ most_recent' = FreshMap(sink_batch')]_vars

\* The first batch left a weight of person 1 in the dict; the second
\* batch, of person 2, has been processed and the dict holds person 2
\* only.
C18_Witness ==
  /\ mpc = "returned" /\ n_batches = 2
  /\ Len(prev_recent) = 1 /\ prev_recent[1].key = <<1, "weight">>
  /\ Len(most_recent) = 1 /\ most_recent[1].key = <<2, "body">>
  /\ pub_calls = << most_recent[1].m >>

\* C20: while self.connected is False, _publish_measurement returns False
\* at once: client.publish is not called, nothing is counted and nothing
\* is raised (the loop goes on with the next item and the method returns
\* after the last one); a call during which the sink was never connected
\* ends with no call of client.publish and zero measurements published.
C20_NoConnectionNoOp ==
  /\ [][(mpc = "publish" /\ pub_i' # pub_i /\ ~connected) =>
          /\ pub_calls' = pub_calls
          /\ published_count' = published_count
          /\ pub_i' = pub_i + 1
          /\ mpc' = "publish"]_vars
  /\ [][(mpc = "publish" /\ pub_i > Len(most_recent) /\ mpc' # mpc)
          => mpc' = "returned"]_vars
  /\ []((Aggregated /\ ~conn_seen) =>
          (pub_calls = <<>> /\ published_count = 0))
  /\ [](published_count <= Len(pub_calls))

\* The client's loop runs but the broker never accepted: both items of
\* the dict were skipped and process_measurements returned.
C20_Witness ==
  /\ mpc = "returned" /\ loop_started /\ ~connected /\ ~conn_seen
  /\ Len(most_recent) = 2 /\ pub_i = 3
  /\ pub_calls = <<>> /\ published_count = 0

\* client.publish is invoked in this step.
PublishInvoked == Len(pub_calls') > Len(pub_calls)

\* C29 as stated: client.publish is never invoked at a moment when
\* self.connected is False, and self.connected is True only if the last
\* connection callback was on_connect with result code 0.
C29_PublishOnlyWhileConnected ==
  /\ [][PublishInvoked => connected]_vars
  /\ [](connected => last_cb = "connect_ok")

\* C29: client.publish is invoked only by a call of _publish_measurement
\* that read self.connected as True at its entry, in a call of
\* process_measurements during which the flag was True; the flag is not
\* read again before client.publish.  self.connected is True only if the
\* last connection callback was on_connect with result code 0.
C29_PublishOnlyAfterCheck ==
  /\ [][(mpc' = "publishing" /\ mpc # "publishing") => connected]_vars
  /\ [][PublishInvoked => mpc = "publishing"]_vars
  /\ [](mpc = "publishing" => conn_seen)
  /\ [](connected => last_cb = "connect_ok")

\* The first item was published; the test of the flag passed for the
\* second, on_disconnect ran, and client.publish is about to be called.
C29_Witness ==
  /\ mpc = "publishing" /\ pub_i = 2 /\ Len(pub_calls) = 1
  /\ ~connected /\ last_cb = "disconnect"

\* --------------------------------------------------- claims on the decoder
\* parse_measurement has returned for payload.
Decoded == parsed # Pending

\* The opcode of the payload, or -1 for an empty one.
OpcodeOf(d) == IF Len(d) = 0 THEN 0 - 1 ELSE d[1]

\* C21: parse_measurement always returns, a measurement or None: None for
\* an empty payload, for a first byte other than 0x84, 0x1D and 0x6F, and
\* for a payload shorter than 9 (0x84), 14 (0x1D) or 16 (0x6F) bytes; and
\* for a known opcode with at least that many bytes a measurement of type
\* person, weight or body respectively.
C21_DecoderTotal ==
  Decoded =>
    LET n == Len(payload)
        op == OpcodeOf(payload)
    IN /\ parsed.type \in {"none", "person", "weight", "body"}
       /\ (op \notin {132, 29, 111} => parsed = None)
       /\ (op = 132 => IF n < 9 THEN parsed = None ELSE parsed.type = "person")
       /\ (op = 29 => IF n < 14 THEN parsed = None ELSE parsed.type = "weight")
       /\ (op = 111 => IF n < 16 THEN parsed = None ELSE parsed.type = "body")

\* A weight frame cut to 3 bytes was decoded to None.
C21_Witness ==
  Decoded /\ payload = <<29, 1, 1>> /\ parsed = None

\* C22: for a weight or body frame with raw timestamp r (bytes 5..8 or
\* 1..4, little endian), E = 1262304000 and B = sys.maxsize: the Unix time
\* is r + E when r + E < B, else r, and 0 when r >= B.  On a 64-bit build
\* (B = 2^63 - 1) that is always r + E; on a 32-bit build (B = 2^31 - 1)
\* it is r + E for r < 885179647 = 13506 * 65536 + 50431, r up to
\* 2^31 - 2 and 0 from 2^31 - 1 on.  r = 0 gives 1262304000.  Both kinds
\* of frame follow the same rule.
C22_TimestampRule ==
  (Decoded /\ parsed.type \in {"weight", "body"}) =>
    LET off == IF parsed.type = "weight" THEN 5 ELSE 1
        rl == payload[off + 1] + 256 * payload[off + 2]
        rh == payload[off + 3] + 256 * payload[off + 4]
        carry == (rl + 15104) \div 65536
        sum == <<(rl + 15104) % 65536, (rh + 19261 + carry) % 65536,
                 (rh + 19261 + carry) \div 65536, 0>>
    IN /\ IF sys_maxsize = MaxSize64
            THEN parsed.timestamp = sum
            ELSE IF rh < 13506 \/ (rh = 13506 /\ rl < 50431)
                   THEN parsed.timestamp = sum
                   ELSE IF rh < 32767 \/ (rh = 32767 /\ rl < 65535)
                          THEN parsed.timestamp = <<rl, rh, 0, 0>>
                          ELSE parsed.timestamp = <<0, 0, 0, 0>>
       /\ ((rl = 0 /\ rh = 0) => parsed.timestamp = <<15104, 19261, 0, 0>>)

\* On a 32-bit build a body frame with r = 885179647, the first value for
\* which r + E reaches sys.maxsize: the raw value is kept.
C22_Witness ==
  /\ Decoded /\ sys_maxsize = MaxSize32 /\ parsed.type = "body"
  /\ payload[2] = 255 /\ payload[3] = 196 /\ payload[4] = 194 /\ payload[5] = 52
  /\ parsed.timestamp = <<50431, 13506, 0, 0>>

\* The 12 low bits of the little-endian field whose first byte is
\* payload[i], taken bytewise: the low byte and the low nibble of the high
\* byte.
Low12(d, i) == d[i] + 256 * (d[i + 1] % 16)

\* C23: for a body frame of at least 16 bytes, fat, tbw, muscle and bone
\* are the 12 low bits of the uint16 at offsets 8, 10, 12 and 14 divided
\* by 10 (the top nibble has no effect: 0x1064 and 0x0064 both give
\* 10.0), kcal is the whole uint16 at offset 6 and person is the byte at
\* offset 5.
C23_BodyFields ==
  (Decoded /\ parsed.type = "body") =>
    /\ parsed.fat = [whole |-> Low12(payload, 9) \div 10,
                     tenths |-> Low12(payload, 9) % 10]
    /\ parsed.tbw = [whole |-> Low12(payload, 11) \div 10,
                     tenths |-> Low12(payload, 11) % 10]
    /\ parsed.muscle = [whole |-> Low12(payload, 13) \div 10,
                        tenths |-> Low12(payload, 13) % 10]
    /\ parsed.bone = [whole |-> Low12(payload, 15) \div 10,
                      tenths |-> Low12(payload, 15) % 10]
    /\ parsed.kcal = payload[7] + 256 * payload[8]
    /\ parsed.person = payload[6]
    /\ ((payload[9] = 100 /\ payload[10] \in {0, 16})
          => parsed.fat = [whole |-> 10, tenths |-> 0])

\* Fat field 0x1064 decoded to 10.0, with kcal 0xF001 kept whole.
C23_Witness ==
  /\ Decoded /\ parsed.type = "body"
  /\ payload[9] = 100 /\ payload[10] = 16
  /\ parsed.fat = [whole |-> 10, tenths |-> 0]
  /\ parsed.kcal = 61441 /\ parsed.person = 255

\* C24: for a weight frame of at least 14 bytes, weight is the uint16 at
\* offsets 1..2 divided by 100 (7500 gives 75.00), stabilized is bit 0 and
\* impedance_measured bit 1 of the byte at offset 3, whatever its other
\* bits, and person is the byte at offset 13.
C24_WeightFields ==
  (Decoded /\ parsed.type = "weight") =>
    LET w == payload[2] + 256 * payload[3]
        st == payload[4]
    IN /\ parsed.weight = [whole |-> w \div 100, hundredths |-> w % 100]
       /\ (w = 7500 => parsed.weight = [whole |-> 75, hundredths |-> 0])
       /\ parsed.stabilized = (st \in {1, 3, 253, 255})
       /\ parsed.impedance_measured = (st \in {2, 3, 254, 255})
       /\ parsed.person = payload[14]

\* 7500 with status 0xFE: 75.00 kg, not stabilized, impedance measured.
C24_Witness ==
  /\ Decoded /\ parsed.type = "weight" /\ payload[4] = 254
  /\ parsed.weight = [whole |-> 75, hundredths |-> 0]
  /\ ~parsed.stabilized /\ parsed.impedance_measured /\ parsed.person = 255

\* connect_to_device has returned True to scan_devices.
ReturnedTrue == pc = "ret" /\ result

\* C25: connect_to_device returns True only after a data exchange: the
\* attempt that returns found the command characteristic of the weight
\* service, wrote the start command and ran its collection loop to an end.
C25_TrueOnlyAfterExchange ==
  ReturnedTrue => (has_write_char /\ end_cause # "none")

\* A KeyboardInterrupt was raised in the session: in the inner try, or in
\* peripheral.disconnect() of the finally block.
Interrupted == exc = "interrupt" \/ disc_outcome = "interrupt"

\* C26: an interrupt raised while the link of a session is open unwinds
\* the session: after it control is in the finally block or the process
\* has ended with the link closed; no handler, return, attempt or scan
\* follows it.
C26_InterruptUnwinds ==
  /\ Interrupted => pc \in {"finally", "exited"}
  /\ (Interrupted /\ pc = "exited") => links = 0

\* The commands of the handshake are being written, or were.
PastEnabling == pc \in {"start", "sync", "collect"}

\* C27: the handshake of an attempt runs in one order.  The start command
\* is written only when every INDICATE characteristic of the service has
\* had its enable write acknowledged and the command characteristic was
\* found; the time sync follows the acknowledged start command only; the
\* collection loop follows the time sync only; enable writes are made in
\* the enabling phase only and notifications are polled in the collection
\* loop only; no step goes back to an earlier one.
C27_HandshakeOrder ==
  /\ [](PastEnabling => (ind_left = 0 /\ has_write_char))
  /\ [][/\ (pc' = "start" /\ pc # "start") => pc = "enable"
        /\ (pc' = "sync" /\ pc # "sync") => pc = "start"
        /\ (pc' = "collect" /\ pc # "collect") => (pc = "sync" /\ rx_window = 0)
        /\ (pc' = pc /\ ind_left' < ind_left) => pc = "enable"
        /\ rx_window' > rx_window => pc = "collect"
        /\ PastEnabling => pc' \notin {"discover", "enable"}
        /\ pc \in {"sync", "collect"} => pc' # "start"
        /\ pc = "collect" => pc' # "sync"]_vars

\* The start command was acknowledged after the enable write of the one
\* INDICATE characteristic; the time sync comes next.
C27_Witness ==
  pc = "sync" /\ n_ind > 0 /\ ind_left = 0 /\ has_write_char

\* The measurements of the buffer that were decoded in the running attempt.
OfThisAttempt(ms) == {i \in DOMAIN ms : ms[i].rx > attempt_base}

\* C28: while the link of a session stays open, a measurement decoded from
\* a notification of that session stays in the buffer, so it is in the
\* batch the session hands over; the buffer holds each notification once
\* and in arrival order, and a plugin is handed the buffer as it is.
C28_SessionNotificationsKept ==
  /\ [](\A i, j \in DOMAIN measurements :
          i < j => measurements[i].rx < measurements[j].rx)
  /\ [][(links = 1 /\ links' = 1) =>
          \A i \in OfThisAttempt(measurements) :
            \E j \in DOMAIN measurements' :
              measurements'[j] = measurements[i]]_vars
  /\ [][\A s \in called' \ called : got'[s] = measurements]_vars

====
